---- MODULE Spec2Model ----
(***************************************************************************)
(* A model of jax::PyDeviceList (jaxlib/py_device_list.cc): a device list  *)
(* held either as a native ifrt device list owned by one client (variant   *)
(* index 0) or as a Python tuple of device-like objects (variant index 1), *)
(* with memoized hash, process indices, addressability and addressable     *)
(* sublist.                                                                *)
(***************************************************************************)
EXTENDS Integers, Sequences, FiniteSets, TLC

\* ------------------------------------------------------------------ bounds
\* Longest device tuple a root list of Spec is constructed from.
MaxLen == 3
\* Longest native device list a root list of Spec is constructed from.
MaxNativeLen == 4
\* Longest device tuple a root list of SpecEq (two roots) is constructed from.
MaxEqLen == 2
\* Number of PyDeviceList objects the heap can hold.
MaxObjs == 2
\* Hash values are taken modulo HashMod, so that distinct lists can collide.
HashMod == 3

\* The indices passed to __getitem__ run from -MaxIndex to MaxIndex.
MaxIndex == 5
\* The errors a default-memory query can fail with are 1..MaxFault.
MaxFault == 2
\* The length of the longest list that threads share.
MaxThreadLen == 1
MaxSlice == 1

\* ------------------------------------------------------- the runtime world
\* py_client_ == nullptr
NoClient == "null"

\* The PyClient objects.
Clients == {"cA", "cB"}

\* PyClient::process_index(): the local process index of a client.
ClientProcessIndex(c) == IF c = "cA" THEN 0 ELSE 1

\* The xla::ifrt::Device objects of all clients.
IfrtDevices == {"a0", "a1", "b1"}

\* The client that owns an ifrt device (PyDevice::client()).
DeviceClient(d) == IF d \in {"a0", "a1"} THEN "cA" ELSE "cB"

\* xla::ifrt::Device::ProcessIndex().
DeviceProcessIndex(d) == IF d = "a0" THEN 0 ELSE 1

\* The value a device contributes to a hash (its identity).
DeviceNum(d) == CASE d = "a0" -> 1 [] d = "a1" -> 2 [] OTHER -> 3

\* PyClient::GetPyDevice: the one jax::PyDevice object wrapping an ifrt device.
GetPyDevice(py_client, device) == <<"PyDevice", device>>

\* A Python object that is no jax::PyDevice (device duck typing); it is
\* hashable and has the attributes the code reads: process_index 0, and a
\* client whose process_index() is 0.
DuckDevices == {<<"Duck", "k0">>}

\* Every Python object a device tuple can hold.
PyObjects == {GetPyDevice(DeviceClient(d), d) : d \in IfrtDevices} \cup DuckDevices

\* nb::isinstance<jax::PyDevice>(obj)
IsPyDevice(obj) == obj[1] = "PyDevice"

\* PyDevice::device()
PyDeviceDevice(obj) == obj[2]

\* PyDevice::client()
PyDeviceClient(obj) == DeviceClient(obj[2])

\* obj.process_index, read as a Python attribute.
AttrProcessIndex(obj) == IF IsPyDevice(obj) THEN DeviceProcessIndex(obj[2]) ELSE 0

\* obj.client.process_index(), read through Python attributes.
AttrClientProcessIndex(obj) ==
  IF IsPyDevice(obj) THEN ClientProcessIndex(PyDeviceClient(obj)) ELSE 0

\* hash(obj) of one Python object (identity based).
ObjHash(obj) == IF IsPyDevice(obj) THEN DeviceNum(obj[2]) ELSE 4

\* All sequences over S of length at most n.
TuplesUpTo(S, n) == UNION {[1..k -> S] : k \in 0..n}

\* ------------------------------------------------------------- the object
\* std::optional<T>: <<>> is nullopt, <<v>> holds v.
Nullopt == <<>>

\* PyDeviceList(py_client, device_list): the native constructor.  Its callers
\* pass the client that owns the devices.
PyDeviceListNative(py_client, device_list) ==
  [index |-> 0, py_client_ |-> py_client, device_list_ |-> device_list,
   hash_ |-> Nullopt, is_fully_addressable_ |-> Nullopt,
   process_indices_ |-> Nullopt, addressable_device_list_ |-> Nullopt,
   device_kind_ |-> Nullopt, memory_kind_info_ |-> Nullopt]

\* A loop that skips what is no PyDevice of the first client seen, and
\* upgrades with the rest.
CtorLoopSkip(t, i, py_client, devices) ==
  LET pys == SelectSeq(t, IsPyDevice)
      c == IF pys = <<>> THEN NoClient ELSE DeviceClient(pys[1][2])
      own == SelectSeq(pys, LAMBDA obj : DeviceClient(obj[2]) = c)
  IN [upgrade |-> pys # <<>>, py_client |-> c,
      devices |-> [k \in 1..Len(own) |-> own[k][2]]]

\* The loop of PyDeviceList(nb::tuple): i is the next element, py_client the
\* client seen so far, devices the ifrt devices collected so far.  The result
\* says whether the loop ran to its end (upgrade) or returned early.
RECURSIVE CtorLoop(_, _, _, _)
CtorLoop(t, i, py_client, devices) ==
  IF i > Len(t) THEN [upgrade |-> TRUE, py_client |-> py_client, devices |-> devices]
  ELSE IF ~IsPyDevice(t[i])
    THEN [upgrade |-> FALSE, py_client |-> py_client, devices |-> devices]
  ELSE IF py_client = NoClient
    THEN CtorLoop(t, i + 1, PyDeviceClient(t[i]), Append(devices, PyDeviceDevice(t[i])))
  ELSE IF PyDeviceClient(t[i]) # py_client
    THEN [upgrade |-> FALSE, py_client |-> py_client, devices |-> devices]
  ELSE CtorLoop(t, i + 1, py_client, Append(devices, PyDeviceDevice(t[i])))

\* A constructor that never upgrades.
PyDeviceListKeepTuple(py_device_assignment) ==
  [index |-> 1, py_client_ |-> NoClient, device_list_ |-> py_device_assignment,
   hash_ |-> <<>>, is_fully_addressable_ |-> <<>>,
   process_indices_ |-> <<>>, addressable_device_list_ |-> <<>>,
   device_kind_ |-> <<>>, memory_kind_info_ |-> <<>>]

\* PyDeviceList(nb::tuple py_device_assignment): keeps the tuple (index 1)
\* unless every element is a PyDevice of one client (index 0).
PyDeviceListTuple(py_device_assignment) ==
  LET r == CtorLoop(py_device_assignment, 1, NoClient, <<>>)
      asTuple == [index |-> 1, py_client_ |-> r.py_client,
                  device_list_ |-> py_device_assignment,
                  hash_ |-> Nullopt, is_fully_addressable_ |-> Nullopt,
                  process_indices_ |-> Nullopt, addressable_device_list_ |-> Nullopt,
                  device_kind_ |-> Nullopt, memory_kind_info_ |-> Nullopt]
  IN IF Len(py_device_assignment) = 0 THEN asTuple
     ELSE IF r.upgrade THEN PyDeviceListNative(r.py_client, r.devices)
     ELSE asTuple

\* PyDeviceList::Len
ListLen(l) == Len(l.device_list_)

\* PyDeviceList::AsTuple: the Python device objects of the list, in order.
AsTuple(l) ==
  IF l.index = 0
    THEN [i \in 1..Len(l.device_list_) |-> GetPyDevice(l.py_client_, l.device_list_[i])]
    ELSE l.device_list_

\* ----------------------------------------------------------------- hashing
\* The seed absl::Hash draws when the process starts: the same one Python's
\* tuple hash starts from (0), or another one.
AbslSeeds == {0, 1}

\* A structural hash of an ordered sequence of numbers, from a seed.
RECURSIVE HashFold(_, _)
HashFold(seed, nums) ==
  IF Len(nums) = 0 THEN seed % HashMod
  ELSE (HashFold(seed, SubSeq(nums, 1, Len(nums) - 1)) * 2 + nums[Len(nums)]) % HashMod

\* absl::HashOf(DeviceListRef): over the ordered device identities, from the
\* process-wide seed of absl::Hash.
AbslHashOf(seed, device_list) ==
  HashFold(seed, [i \in 1..Len(device_list) |-> DeviceNum(device_list[i])])

\* nb::hash(tuple): Python's tuple hash over the hashes of the elements, from
\* Python's fixed start value.
NbHash(t) == HashFold(0, [i \in 1..Len(t) |-> ObjHash(t[i])])

\* The value PyDeviceList::Hash stores in hash_ when it is not yet set.
ComputeHash(l, seed) ==
  IF l.index = 0 THEN AbslHashOf(seed, l.device_list_) ELSE NbHash(l.device_list_)

\* A Hash that turns the list into its tuple and keeps it while hashing.
HashMemoAsTuple(l, seed) ==
  IF l.hash_ = Nullopt
    THEN [l EXCEPT !.hash_ = <<ComputeHash(l, seed)>>, !.index = 1,
                   !.device_list_ = AsTuple(l)]
    ELSE l

\* PyDeviceList::Hash: the list after the call (hash_ memoized).
HashMemo(l, seed) ==
  IF l.hash_ = Nullopt THEN [l EXCEPT !.hash_ = <<ComputeHash(l, seed)>>] ELSE l

\* ---------------------------------------------------------------- equality
\* xla::ifrt::DeviceList::operator==: the same devices in the same order.
DeviceListEq(x, y) ==
  /\ Len(x) = Len(y)
  /\ \A i \in 1..Len(x) : x[i] = y[i]

\* TupleEq comparing the elements without their order.
TupleEqUnordered(s, t) ==
  /\ Len(s) = Len(t)
  /\ {s[i] : i \in 1..Len(s)} = {t[i] : i \in 1..Len(t)}

\* nb::tuple::equal: Python's == on tuples, element by element; device objects
\* compare by identity.
TupleEq(s, t) ==
  /\ Len(s) = Len(t)
  /\ \A i \in 1..Len(s) : s[i] = t[i]

\* The comparison PyDeviceList::Equal makes once the two hashes agree.
StructuralEq(a, b) ==
  IF a.index = 0 /\ b.index = 0
    THEN DeviceListEq(a.device_list_, b.device_list_)
    ELSE TupleEq(AsTuple(a), AsTuple(b))

\* EqualDistinct without the comparison of the hashes.
EqualNoHashCheck(a, b, h1, h2) == StructuralEq(a, b)

\* PyDeviceList::Equal for two distinct PyDeviceList objects a and b whose
\* hashes are h1 and h2.
EqualDistinct(a, b, h1, h2) ==
  IF h1 # h2 THEN FALSE ELSE StructuralEq(a, b)

\* ---------------------------------------------------------- addressability
\* The set PyDeviceList::ProcessIndices stores when process_indices_ is unset.
ComputeProcessIndices(l) ==
  IF l.index = 0
    THEN {DeviceProcessIndex(l.device_list_[i]) : i \in 1..Len(l.device_list_)}
    ELSE {AttrProcessIndex(l.device_list_[i]) : i \in 1..Len(l.device_list_)}

\* PyDeviceList::ProcessIndices: the list after the call.
ProcessIndicesMemo(l) ==
  IF l.process_indices_ = Nullopt
    THEN [l EXCEPT !.process_indices_ = <<ComputeProcessIndices(l)>>]
    ELSE l

\* The process_index PyDeviceList::IsFullyAddressable compares with: the
\* owning client's for index 0, the first device's client's for index 1.
LocalProcessIndex(l) ==
  IF l.index = 0
    THEN (IF l.py_client_ # NoClient THEN ClientProcessIndex(l.py_client_) ELSE 0)
    ELSE AttrClientProcessIndex(l.device_list_[1])

\* PyDeviceList::IsFullyAddressable: the list after the call, and whether the
\* call returned ("ok") or a CHECK failed ("abort").
IsFullyAddressableRun(l) ==
  IF l.is_fully_addressable_ # Nullopt THEN [l |-> l, status |-> "ok"]
  ELSE LET l1 == ProcessIndicesMemo(l)
           pis == l1.process_indices_[1]
       IN IF Cardinality(pis) > 1
            THEN [l |-> [l1 EXCEPT !.is_fully_addressable_ = <<FALSE>>], status |-> "ok"]
          ELSE IF Cardinality(pis) # 1
            THEN [l |-> l1, status |-> "abort"]
          ELSE [l |-> [l1 EXCEPT !.is_fully_addressable_ =
                                    <<(CHOOSE p \in pis : TRUE) = LocalProcessIndex(l1)>>],
                status |-> "ok"]

\* AddressableNative keeping every device.
AddressableNativeAll(l) == l.device_list_

\* The filter of AddressableDeviceList, index 0: the devices whose process
\* index is the owning client's.
AddressableNative(l) ==
  LET process_index ==
        IF l.py_client_ # NoClient THEN ClientProcessIndex(l.py_client_) ELSE 0
      Local(device) == DeviceProcessIndex(device) = process_index
  IN SelectSeq(l.device_list_, Local)

\* The filter of AddressableDeviceList, index 1: the objects whose
\* process_index is their own client's process_index().
AddressableTuple(l) ==
  LET Local(device) == AttrProcessIndex(device) = AttrClientProcessIndex(device)
  IN SelectSeq(l.device_list_, Local)

\* The PyDeviceList that AddressableDeviceList constructs and caches.
NewAddressableList(l) ==
  IF l.index = 0
    THEN PyDeviceListNative(l.py_client_, AddressableNative(l))
    ELSE PyDeviceListTuple(AddressableTuple(l))

\* TakesFastPath never taking it: every list is filtered and cached.
NeverFastPath(l) == FALSE

\* The test `if (self->IsFullyAddressable())` of AddressableDeviceList, on the
\* list as IsFullyAddressable left it.
TakesFastPath(l) == l.is_fully_addressable_[1]

\* ReturnSelf storing self in addressable_device_list_.
ReturnSelfCached(l, self) == [l EXCEPT !.addressable_device_list_ = <<self>>]

\* AddressableDeviceList on a fully addressable list returns self and leaves
\* addressable_device_list_ alone: the list after that return.
ReturnSelf(l, self) == l

\* ------------------------------------------------------------------- state
VARIABLES
  heap,       \* the PyDeviceList objects, by object id 1..Len(heap)
  abslSeed,   \* the seed absl::Hash draws for this process
  aborted,    \* a CHECK failed: the process is gone
  ret,        \* the last call: operation, arguments, outcome
  adlReturns, \* every <<self, result>> AddressableDeviceList has returned
  memFault,   \* what a default-memory query of a device does now: 0 succeeds,
              \* k > 0 fails with error k
  iters,      \* the iterator objects __iter__ has made
  queryLog,   \* the default-memory queries made so far: <<list, outcome>>
  kindLog,    \* the lists on which DeviceKind ran its resolution, in order
  pc,         \* where each thread is in the call it is making
  held,       \* the object locks held: <<list, thread>>
  released    \* the releases of device sequences by destructors: <<list, how>>

\* The variables of the threads and of destruction.
conc == <<pc, held, released>>

\* The variables of the runtime, of the iterators and of the two logs, and
\* those of the threads and of destruction.
aux == <<memFault, iters, queryLog, kindLog, pc, held, released>>

vars ==
  <<heap, abslSeed, aborted, ret, adlReturns, memFault, iters, queryLog, kindLog,
    pc, held, released>>

\* The threads that call into one process.
Threads == {1, 2}

\* A thread that is in no call.
Idle ==
  [op |-> "idle", self |-> 0, other |-> 0, at |-> "idle", pending |-> {}, h1 |-> 0, h2 |-> 0]

\* No thread is in a call, no lock is held, nothing has been destroyed.
ConcInit ==
  /\ pc = [t \in Threads |-> Idle]
  /\ held = {}
  /\ released = <<>>

Objs == 1..Len(heap)

\* A Python object that is no PyDeviceList, as the argument of __eq__.
NotAList == 0

\* ret: the operation, its arguments (other: the second list, the index, the
\* sharding, or the runtime's fault at the call), whether it returned ("ok"),
\* threw ("raise"), returned a failure status ("error") or the process
\* aborted, the value returned or the exception, and whether the call came
\* after an earlier one of its kind on the same list.
NoCall ==
  [op |-> "none", self |-> 0, other |-> 0, status |-> "none", val |-> <<>>,
   again |-> FALSE]

Returned(op, self, other, v) ==
  [op |-> op, self |-> self, other |-> other, status |-> "ok", val |-> <<v>>,
   again |-> FALSE]

Aborted(op, self) ==
  [op |-> op, self |-> self, other |-> 0, status |-> "abort", val |-> <<>>,
   again |-> FALSE]

ReturnedList(self, result) ==
  [Returned("AddressableDeviceList", self, 0, result)
     EXCEPT !.again = \E e \in adlReturns : e[1] = self]

\* adlReturns after AddressableDeviceList(self) returned result.
Record(self, result) == adlReturns \cup {<<self, result>>}

\* The lists a caller can construct: from any tuple of Python objects, or
\* natively from a client and devices of that client.
Constructible(n, m) ==
  {PyDeviceListTuple(t) : t \in TuplesUpTo(PyObjects, n)}
  \cup UNION {{PyDeviceListNative(c, s) :
                  s \in TuplesUpTo({d \in IfrtDevices : DeviceClient(d) = c}, m)} :
              c \in Clients}

Init ==
  /\ \E l \in Constructible(MaxLen, MaxNativeLen) : heap = <<l>>
  /\ abslSeed \in AbslSeeds
  /\ aborted = FALSE
  /\ ret = NoCall
  /\ adlReturns = {}
  /\ memFault = 0
  /\ iters = <<>>
  /\ queryLog = <<>>
  /\ kindLog = <<>>
  /\ ConcInit

InitEq ==
  /\ \E a, b \in Constructible(MaxEqLen, MaxEqLen) : heap = <<a, b>>
  /\ abslSeed \in AbslSeeds
  /\ aborted = FALSE
  /\ ret = NoCall
  /\ adlReturns = {}
  /\ memFault = 0
  /\ iters = <<>>
  /\ queryLog = <<>>
  /\ kindLog = <<>>
  /\ ConcInit

\* __hash__
Hash(self) ==
  /\ ~aborted
  /\ heap' = [heap EXCEPT ![self] = HashMemo(heap[self], abslSeed)]
  /\ ret' = Returned("Hash", self, 0, HashMemo(heap[self], abslSeed).hash_[1])
  /\ UNCHANGED <<abslSeed, aborted, adlReturns>>

\* __eq__
Equal(self, other) ==
  /\ ~aborted
  /\ IF other = NotAList
       THEN /\ ret' = Returned("Equal", self, other, FALSE)
            /\ UNCHANGED heap
     ELSE IF self = other
       THEN /\ ret' = Returned("Equal", self, other, TRUE)
            /\ UNCHANGED heap
     ELSE LET a == HashMemo(heap[self], abslSeed)
              b == HashMemo(heap[other], abslSeed)
          IN /\ heap' = [heap EXCEPT ![self] = a, ![other] = b]
             /\ ret' = Returned("Equal", self, other,
                                EqualDistinct(a, b, a.hash_[1], b.hash_[1]))
  /\ UNCHANGED <<abslSeed, aborted, adlReturns>>

\* process_indices
ProcessIndices(self) ==
  /\ ~aborted
  /\ heap' = [heap EXCEPT ![self] = ProcessIndicesMemo(heap[self])]
  /\ ret' = Returned("ProcessIndices", self, 0,
                     ProcessIndicesMemo(heap[self]).process_indices_[1])
  /\ UNCHANGED <<abslSeed, aborted, adlReturns>>

\* is_fully_addressable
IsFullyAddressable(self) ==
  /\ ~aborted
  /\ LET r == IsFullyAddressableRun(heap[self])
     IN /\ heap' = [heap EXCEPT ![self] = r.l]
        /\ aborted' = (r.status = "abort")
        /\ ret' = IF r.status = "abort"
                    THEN Aborted("IsFullyAddressable", self)
                    ELSE Returned("IsFullyAddressable", self, 0,
                                  r.l.is_fully_addressable_[1])
  /\ UNCHANGED <<abslSeed, adlReturns>>

\* addressable_device_list
AddressableDeviceList(self) ==
  /\ ~aborted
  /\ LET r == IsFullyAddressableRun(heap[self])
         new == Len(heap) + 1
     IN IF r.status = "abort"
          THEN /\ heap' = [heap EXCEPT ![self] = r.l]
               /\ aborted' = TRUE
               /\ ret' = Aborted("AddressableDeviceList", self)
               /\ UNCHANGED adlReturns
        ELSE IF TakesFastPath(r.l)
          THEN /\ heap' = [heap EXCEPT ![self] = ReturnSelf(r.l, self)]
               /\ ret' = ReturnedList(self, self)
               /\ adlReturns' = Record(self, self)
               /\ UNCHANGED aborted
        ELSE IF r.l.addressable_device_list_ # Nullopt
          THEN /\ heap' = [heap EXCEPT ![self] = r.l]
               /\ ret' = ReturnedList(self, r.l.addressable_device_list_[1])
               /\ adlReturns' = Record(self, r.l.addressable_device_list_[1])
               /\ UNCHANGED aborted
        ELSE /\ Len(heap) < MaxObjs
             /\ heap' = Append([heap EXCEPT ![self] =
                                  [r.l EXCEPT !.addressable_device_list_ = <<new>>]],
                               NewAddressableList(r.l))
             /\ ret' = ReturnedList(self, new)
             /\ adlReturns' = Record(self, new)
             /\ UNCHANGED aborted
  /\ UNCHANGED abslSeed

Next ==
  \/ \E self \in Objs : Hash(self) /\ UNCHANGED aux
  \/ \E self \in Objs, other \in Objs \cup {NotAList} :
        Equal(self, other) /\ UNCHANGED aux
  \/ \E self \in Objs : ProcessIndices(self) /\ UNCHANGED aux
  \/ \E self \in Objs : IsFullyAddressable(self) /\ UNCHANGED aux
  \/ \E self \in Objs : AddressableDeviceList(self) /\ UNCHANGED aux

\* The calls that hash and compare.
NextEq ==
  \/ \E self \in Objs : Hash(self) /\ UNCHANGED aux
  \/ \E self \in Objs, other \in Objs \cup {NotAList} :
        Equal(self, other) /\ UNCHANGED aux

\* One list constructed by the caller, and the lists derived from it, under
\* every call.
Spec == Init /\ [][Next]_vars

\* Two lists constructed by the caller, hashed and compared.
SpecEq == InitEq /\ [][NextEq]_vars

\* ------------------------------------------------------------ the claims
\* What PyDeviceList::Hash returns on object o in the current state.
HashResult(o) == HashMemo(heap[o], abslSeed).hash_[1]

\* What PyDeviceList::Equal returns on objects x and y in the current state.
EqualResult(x, y) ==
  \/ x = y
  \/ EqualDistinct(heap[x], heap[y], HashResult(x), HashResult(y))

\* The number of positions of s that hold x.
Count(s, x) == Cardinality({i \in 1..Len(s) : s[i] = x})

\* s and t hold the same devices the same number of times.
SameMultiset(s, t) ==
  /\ Len(s) = Len(t)
  /\ \A i \in 1..Len(s) : Count(s, s[i]) = Count(t, s[i])

\* A Python device object is addressable: its process index is the process
\* index of its own client.
IsLocal(obj) == AttrProcessIndex(obj) = AttrClientProcessIndex(obj)

\* Every device of the list is addressable.
AllLocal(l) == \A i \in 1..Len(AsTuple(l)) : IsLocal(AsTuple(l)[i])

\* The addressable devices of a device tuple, in their order.
LocalDevices(t) == SelectSeq(t, IsLocal)

\* The last call was Equal on two PyDeviceList objects.
EqualCalled == ret.op = "Equal" /\ ret.other # NotAList

\* C1: two lists built from the same ordered device identities, in either
\* representation, compare equal and have the same hash.
C1_SameDevicesEqualAndSameHash ==
  (EqualCalled /\ AsTuple(heap[ret.self]) = AsTuple(heap[ret.other]))
    => /\ ret.val = <<TRUE>>
       /\ HashResult(ret.self) = HashResult(ret.other)

\* C2: two lists that hold the same multiset of devices in a different order
\* are not equal, whichever of them is self.
C2_OrderSensitive ==
  (/\ EqualCalled
   /\ SameMultiset(AsTuple(heap[ret.self]), AsTuple(heap[ret.other]))
   /\ AsTuple(heap[ret.self]) # AsTuple(heap[ret.other]))
    => ret.val = <<FALSE>>

\* C2 witness: Equal returned false on two permutations of one another whose
\* hashes collide, so that the comparison of the sequences decided.
C2_Witness ==
  /\ EqualCalled
  /\ SameMultiset(AsTuple(heap[ret.self]), AsTuple(heap[ret.other]))
  /\ AsTuple(heap[ret.self]) # AsTuple(heap[ret.other])
  /\ HashResult(ret.self) = HashResult(ret.other)
  /\ ret.val = <<FALSE>>

\* C3: when Equal returns true the two lists have the same hash.
C3_EqualImpliesSameHash ==
  (EqualCalled /\ ret.val = <<TRUE>>)
    => HashResult(ret.self) = HashResult(ret.other)

\* C3 witness: Equal returned true on two distinct objects of more than one
\* device, both hashed.
C3_Witness ==
  /\ EqualCalled
  /\ ret.self # ret.other
  /\ ListLen(heap[ret.self]) > 1
  /\ ret.val = <<TRUE>>
  /\ heap[ret.self].hash_ # Nullopt
  /\ heap[ret.other].hash_ # Nullopt

\* C4: on a native list is_fully_addressable returns true exactly when every
\* device's process index is the owning client's.
C4_NativeFullyAddressableIff ==
  (ret.op = "IsFullyAddressable" /\ heap[ret.self].index = 0)
    => /\ ret.status = "ok"
       /\ ret.val = <<\A i \in 1..Len(heap[ret.self].device_list_) :
                        DeviceProcessIndex(heap[ret.self].device_list_[i])
                          = ClientProcessIndex(heap[ret.self].py_client_)>>

\* C5: on a non-empty tuple list is_fully_addressable returns true exactly
\* when every device's process_index is its own client's process_index().
C5_TupleFullyAddressableIff ==
  (/\ ret.op = "IsFullyAddressable"
   /\ heap[ret.self].index = 1
   /\ Len(heap[ret.self].device_list_) > 0)
    => /\ ret.status = "ok"
       /\ ret.val = <<AllLocal(heap[ret.self])>>

\* C6: on an empty list process_indices returns the empty set and
\* is_fully_addressable returns true.
C6_EmptyList ==
  /\ (ret.op = "ProcessIndices" /\ ListLen(heap[ret.self]) = 0)
       => (ret.status = "ok" /\ ret.val = <<{}>>)
  /\ (ret.op = "IsFullyAddressable" /\ ListLen(heap[ret.self]) = 0)
       => (ret.status = "ok" /\ ret.val = <<TRUE>>)

\* C7: no list is its own cached addressable sublist, and on a fully
\* addressable list addressable_device_list returns the list itself.
C7_SelfReturnedNeverCached ==
  /\ \A o \in Objs : heap[o].addressable_device_list_ # <<o>>
  /\ (/\ ret.op = "AddressableDeviceList"
      /\ ret.status = "ok"
      /\ heap[ret.self].is_fully_addressable_ = <<TRUE>>)
       => ret.val = <<ret.self>>

\* C7 witness: addressable_device_list returned the fully addressable list it
\* was called on, and the cache of that list is empty.
C7_Witness ==
  /\ ret.op = "AddressableDeviceList"
  /\ ret.status = "ok"
  /\ heap[ret.self].is_fully_addressable_ = <<TRUE>>
  /\ ret.val = <<ret.self>>
  /\ heap[ret.self].addressable_device_list_ = Nullopt

\* C8: all the lists addressable_device_list has returned for one list are
\* equal, and for a fully addressable list each of them is that list.
C8_Idempotent ==
  \A e1, e2 \in adlReturns :
    e1[1] = e2[1] =>
      /\ EqualResult(e1[2], e2[2])
      /\ heap[e1[1]].is_fully_addressable_ = <<TRUE>> => e1[2] = e1[1]

\* C8 witness: a second call has returned, on a list that is not fully
\* addressable, after another query (a hash) on that list.
C8_Witness ==
  /\ ret.op = "AddressableDeviceList"
  /\ ret.status = "ok"
  /\ ret.again
  /\ heap[ret.self].is_fully_addressable_ = <<FALSE>>
  /\ heap[ret.self].hash_ # Nullopt
  /\ <<ret.self, ret.val[1]>> \in adlReturns

\* C9: on a list that is not fully addressable addressable_device_list
\* returns another list, which holds exactly the addressable devices of the
\* list in their order.
C9_SublistIsTheLocalDevices ==
  (/\ ret.op = "AddressableDeviceList"
   /\ ret.status = "ok"
   /\ heap[ret.self].is_fully_addressable_ = <<FALSE>>)
    => /\ ret.val # <<ret.self>>
       /\ AsTuple(heap[ret.val[1]]) = LocalDevices(AsTuple(heap[ret.self]))

\* C9 witness: 4 devices with process indices 0,0,1,1 on the client of
\* process index 0 gave a sublist of length 2.
C9_Witness ==
  /\ ret.op = "AddressableDeviceList"
  /\ ret.status = "ok"
  /\ heap[ret.self].index = 0
  /\ ClientProcessIndex(heap[ret.self].py_client_) = 0
  /\ ListLen(heap[ret.self]) = 4
  /\ [i \in 1..4 |-> DeviceProcessIndex(heap[ret.self].device_list_[i])] = <<0, 0, 1, 1>>
  /\ ret.val # <<ret.self>>
  /\ ListLen(heap[ret.val[1]]) = 2

\* C10: is_fully_addressable returns true on the addressable sublist of a list
\* that is not fully addressable.
C10_SublistFullyAddressable ==
  (/\ ret.op = "IsFullyAddressable"
   /\ \E o \in Objs : /\ heap[o].is_fully_addressable_ = <<FALSE>>
                      /\ heap[o].addressable_device_list_ = <<ret.self>>)
    => (ret.status = "ok" /\ ret.val = <<TRUE>>)

\* ------------------------------------------------ the list as a sequence
\* PyDeviceList::Dump, which __getstate__ returns.
Dump(l) == AsTuple(l)

\* __getstate__
GetState(self) ==
  /\ ~aborted
  /\ ret' = Returned("GetState", self, 0, Dump(heap[self]))
  /\ UNCHANGED <<heap, abslSeed, aborted, adlReturns>>

\* __setstate__(self, t) on a new object, with the state t that the last
\* __getstate__ returned: self is constructed in place from the tuple.  ret
\* names the new object as self and the pickled one as other.
SetState ==
  /\ ~aborted
  /\ ret.op = "GetState"
  /\ Len(heap) < MaxObjs
  /\ heap' = Append(heap, PyDeviceListTuple(ret.val[1]))
  /\ ret' = Returned("SetState", Len(heap) + 1, ret.self, ret.val[1])
  /\ UNCHANGED <<abslSeed, aborted, adlReturns>>

\* A call that threw the Python exception exc.
Raised(op, self, other, exc) ==
  [op |-> op, self |-> self, other |-> other, status |-> "raise", val |-> <<exc>>,
   again |-> FALSE]

\* The outcome of a function that returns v, and of one that throws exc.
Value(v) == [status |-> "ok", val |-> <<v>>]
Throw(exc) == [status |-> "raise", val |-> <<exc>>]

\* GetItem on the native list, without the wrap of a negative index.
GetItemNativeNoWrap(l, index) ==
  IF index < 0 \/ index >= ListLen(l)
    THEN Throw("IndexError")
    ELSE Value(GetPyDevice(l.py_client_, l.device_list_[index + 1]))

\* PyDeviceList::GetItem, case 0: devices()[index] is device_list_[index + 1].
GetItemNative(l, index) ==
  IF index < -ListLen(l) \/ index >= ListLen(l)
    THEN Throw("IndexError")
    ELSE LET i == IF index < 0 THEN index + ListLen(l) ELSE index
         IN Value(GetPyDevice(l.py_client_, l.device_list_[i + 1]))

\* tuple.__getitem__(index) of Python: a negative index counts from the end.
PyTupleGetItem(t, index) ==
  LET i == IF index < 0 THEN index + Len(t) ELSE index
  IN IF i < 0 \/ i >= Len(t) THEN Throw("IndexError") ELSE Value(t[i + 1])

\* PyDeviceList::GetItem
GetItemResult(l, index) ==
  IF l.index = 0 THEN GetItemNative(l, index)
  ELSE PyTupleGetItem(l.device_list_, index)

\* The indices passed to __getitem__.
Indices == (0 - MaxIndex)..MaxIndex

\* __getitem__(index)
GetItem(self, index) ==
  /\ ~aborted
  /\ ret' = [op |-> "GetItem", self |-> self, other |-> index,
             status |-> GetItemResult(heap[self], index).status,
             val |-> GetItemResult(heap[self], index).val, again |-> FALSE]
  /\ UNCHANGED <<heap, abslSeed, aborted, adlReturns>>

\* The iterator objects a run makes: a first and a second one.
IterIds == {1, 2}

\* An iterator that walks the list from its end.
DerefReversed(l, it) ==
  IF l.index = 0
    THEN GetPyDevice(l.py_client_, l.device_list_[ListLen(l) - it])
    ELSE l.device_list_[ListLen(l) - it]

\* What Iterator::operator* gives at offset it of the list (case 0), and what
\* the tuple's iterator gives there (case 1).
Deref(l, it) ==
  IF l.index = 0 THEN GetPyDevice(l.py_client_, l.device_list_[it + 1])
  ELSE l.device_list_[it + 1]

\* __iter__: nb::make_iterator from begin (offset 0) to end (offset size).
\* yielded is the history of what the iterator has returned.
Iter(self) ==
  /\ ~aborted
  /\ Len(iters) + 1 \in IterIds
  /\ iters' = Append(iters, [list |-> self, it |-> 0, end |-> ListLen(heap[self]),
                             yielded |-> <<>>, done |-> FALSE])
  /\ ret' = Returned("Iter", self, 0, Len(iters) + 1)
  /\ UNCHANGED <<heap, abslSeed, aborted, adlReturns, memFault, queryLog, kindLog>>

\* __next__ of iterator k: StopIteration at the end, else the element at it,
\* and it moves on.
IterNext(k) ==
  /\ ~aborted
  /\ IF iters[k].it = iters[k].end
       THEN /\ iters' = [iters EXCEPT ![k].done = TRUE]
            /\ ret' = Raised("IterNext", iters[k].list, k, "StopIteration")
       ELSE /\ iters' = [iters EXCEPT
                           ![k].it = @ + 1,
                           ![k].yielded = Append(@, Deref(heap[iters[k].list], iters[k].it))]
            /\ ret' = Returned("IterNext", iters[k].list, k,
                               Deref(heap[iters[k].list], iters[k].it))
  /\ UNCHANGED <<heap, abslSeed, aborted, adlReturns, memFault, queryLog, kindLog>>

\* One list, pickled, unpickled and indexed.
NextSeq ==
  \/ \E self \in Objs : GetState(self) /\ UNCHANGED aux
  \/ SetState /\ UNCHANGED aux
  \/ \E self \in Objs, index \in Indices : GetItem(self, index) /\ UNCHANGED aux

SpecSeq == Init /\ [][NextSeq]_vars

\* One list, iterated by up to two iterators.
NextIter ==
  \/ \E self \in Objs : Iter(self) /\ UNCHANGED conc
  \/ \E k \in 1..Len(iters) : IterNext(k) /\ UNCHANGED conc

SpecIter == Init /\ [][NextIter]_vars

\* C11: the list that __setstate__ builds from what __getstate__ returned on a
\* list L, of either representation, equals L.
C11_RoundTripEqual ==
  ret.op = "SetState" => EqualResult(ret.self, ret.other)

\* -------------------------------------------- memory kinds and device kind
\* xla::ifrt::Device::Kind() of each device.
DeviceKindOf(d) == CASE d = "a0" -> "cpu" [] d = "a1" -> "gpu" [] OTHER -> "tpu"

\* The memory kinds of Device::Memories(), and Device::DefaultMemory()'s kind.
DeviceMemories(d) ==
  IF DeviceClient(d) = "cA" THEN <<"device", "pinned_host">> ELSE <<"unpinned_host">>
DeviceDefaultMemoryKind(d) == DeviceMemories(d)[1]

\* The Python attributes of a device object: default_memory().kind and
\* tuple(addressable_memories()), a tuple of memory objects.
AttrDefaultMemoryKind(obj) ==
  IF IsPyDevice(obj) THEN DeviceDefaultMemoryKind(obj[2]) ELSE "duck_memory"
AttrAddressableMemories(obj) ==
  IF IsPyDevice(obj)
    THEN [i \in 1..Len(DeviceMemories(obj[2])) |-> <<"PyMemorySpace", DeviceMemories(obj[2])[i]>>]
    ELSE <<<<"DuckMemory", "duck_memory">>>>

\* absl::StatusOr<MemoryKindInfo>: a value, or the status of a failure.
OkInfo(default_memory_kind, memory_kinds) ==
  [ok |-> TRUE, status |-> <<>>,
   default_memory_kind |-> default_memory_kind, memory_kinds |-> memory_kinds]
ErrorInfo(status) ==
  [ok |-> FALSE, status |-> status, default_memory_kind |-> "None", memory_kinds |-> <<>>]

\* The status Device::DefaultMemory() fails with under fault k, and the one
\* made from the Python exception a device object raises under fault k.
DeviceStatus(k) == <<"DefaultMemory failed", k>>
PythonErrorStatus(k) == <<"INVALID_ARGUMENT", k>>

\* An empty list reporting a failure, as DeviceKind does.
EmptyInfoFails == ErrorInfo(<<"INVALID_ARGUMENT", 0>>)

\* The info of an empty list: nb::none() and the empty tuple.
EmptyInfo == OkInfo("None", <<>>)

\* PyDeviceList::PopulateMemoryKindInfoForDuckTypedDevices, with the device
\* objects answering under fault.
PopulateMemoryKindInfoForDuckTypedDevices(l, fault) ==
  IF Len(l.device_list_) = 0 THEN EmptyInfo
  ELSE IF fault # 0 THEN ErrorInfo(PythonErrorStatus(fault))
  ELSE OkInfo(AttrDefaultMemoryKind(l.device_list_[1]),
              AttrAddressableMemories(l.device_list_[1]))

\* PyDeviceList::PopulateMemoryKindInfo: the new memory_kind_info_.
PopulateMemoryKindInfo(l, fault) ==
  IF l.index = 1 THEN PopulateMemoryKindInfoForDuckTypedDevices(l, fault)
  ELSE IF ListLen(l) = 0 THEN EmptyInfo
  ELSE IF fault # 0 THEN ErrorInfo(DeviceStatus(fault))
  ELSE OkInfo(DeviceDefaultMemoryKind(l.device_list_[1]), DeviceMemories(l.device_list_[1]))

\* Whether populating asks device 0 anything: not on an empty list.
QueriesDevice(l) == ListLen(l) > 0

\* Populating again whenever the stored info is a failure.
RetryOnFailure(l) ==
  \/ l.memory_kind_info_ = Nullopt
  \/ ~l.memory_kind_info_[1].ok

\* !memory_kind_info_.has_value()
NeedsPopulate(l) == l.memory_kind_info_ = Nullopt

\* A memory-kind info that every call resolves again.
MemoryKindInfoRefresh(l, fault) ==
  [l EXCEPT !.memory_kind_info_ = <<PopulateMemoryKindInfo(l, fault)>>]

\* The list after the first lines of MemoryKinds / DefaultMemoryKind.
MemoryKindInfoMemo(l, fault) ==
  IF NeedsPopulate(l)
    THEN [l EXCEPT !.memory_kind_info_ = <<PopulateMemoryKindInfo(l, fault)>>]
    ELSE l

\* queryLog after a memory-kind call on self; the log stops growing at
\* MaxObjs entries.
LogQuery(self) ==
  IF NeedsPopulate(heap[self]) /\ QueriesDevice(heap[self]) /\ Len(queryLog) < MaxObjs
    THEN Append(queryLog, <<self, memFault>>)
    ELSE queryLog

\* A memory-kind property: ret.other is the fault of the runtime at the call,
\* ret.again whether the info was there already.  The binding turns a status
\* into ValueError(status).
MemoryCall(op, self) ==
  LET info == MemoryKindInfoMemo(heap[self], memFault).memory_kind_info_[1]
  IN /\ ~aborted
     /\ heap' = [heap EXCEPT ![self] = MemoryKindInfoMemo(heap[self], memFault)]
     /\ queryLog' = LogQuery(self)
     /\ ret' = [op |-> op, self |-> self, other |-> memFault,
                status |-> IF info.ok THEN "ok" ELSE "raise",
                val |-> IF ~info.ok THEN <<<<"ValueError", info.status>>>>
                        ELSE IF op = "MemoryKinds" THEN <<info.memory_kinds>>
                        ELSE <<info.default_memory_kind>>,
                again |-> ~NeedsPopulate(heap[self])]
     /\ UNCHANGED <<abslSeed, aborted, adlReturns, memFault, iters, kindLog>>

\* memory_kinds
MemoryKinds(self) == MemoryCall("MemoryKinds", self)

\* default_memory_kind
DefaultMemoryKind(self) == MemoryCall("DefaultMemoryKind", self)

\* The runtime starts or stops failing default-memory queries, or fails them
\* with another error.
FaultChanges ==
  /\ ~aborted
  /\ \E k \in 0..MaxFault : k # memFault /\ memFault' = k
  /\ UNCHANGED <<heap, abslSeed, aborted, ret, adlReturns, iters, queryLog, kindLog>>

\* PyDeviceList::ifrt_device_list
IfrtDeviceList(l) ==
  IF l.index = 0 THEN Value(l.device_list_)
  ELSE Throw("INVALID_ARGUMENT: DeviceList contains non-IFRT devices")

\* The resolution taking the kind of the last device.
DeviceKindOfLast(l) ==
  IF IfrtDeviceList(l).status # "ok"
    THEN Throw(<<"ValueError", IfrtDeviceList(l).val[1]>>)
  ELSE IF ListLen(l) = 0 THEN Throw(<<"ValueError", "DeviceList is empty">>)
  ELSE Value(DeviceKindOf(l.device_list_[ListLen(l)]))

\* The body of `if (!device_kind_.has_value())` in PyDeviceList::DeviceKind:
\* the kind of devices()[0], or the exception thrown.
DeviceKindResolve(l) ==
  IF IfrtDeviceList(l).status # "ok"
    THEN Throw(<<"ValueError", IfrtDeviceList(l).val[1]>>)
  ELSE IF ListLen(l) = 0 THEN Throw(<<"ValueError", "DeviceList is empty">>)
  ELSE Value(DeviceKindOf(l.device_list_[1]))

\* What DeviceKind does on list l: returns the stored kind, or resolves.
DeviceKindResult(l) ==
  IF l.device_kind_ # Nullopt THEN Value(l.device_kind_[1]) ELSE DeviceKindResolve(l)

\* A DeviceKind that stores the failure too.
DeviceKindMemoFailure(l) ==
  IF l.device_kind_ = Nullopt
    THEN [l EXCEPT !.device_kind_ = DeviceKindResolve(l).val]
    ELSE l

\* The list after DeviceKind: device_kind_ is assigned when the resolution
\* did not throw.
DeviceKindMemo(l) ==
  IF l.device_kind_ = Nullopt /\ DeviceKindResolve(l).status = "ok"
    THEN [l EXCEPT !.device_kind_ = DeviceKindResolve(l).val]
    ELSE l

\* device_kind: kindLog gets the list when the resolution runs, and stops
\* growing at MaxObjs entries; ret.again says that the list is in the log.
DeviceKind(self) ==
  /\ ~aborted
  /\ heap' = [heap EXCEPT ![self] = DeviceKindMemo(heap[self])]
  /\ kindLog' = IF heap[self].device_kind_ = Nullopt /\ Len(kindLog) < MaxObjs
                  THEN Append(kindLog, self) ELSE kindLog
  /\ ret' = [op |-> "DeviceKind", self |-> self, other |-> 0,
             status |-> DeviceKindResult(heap[self]).status,
             val |-> DeviceKindResult(heap[self]).val,
             again |-> \E i \in 1..Len(kindLog) : kindLog[i] = self]
  /\ UNCHANGED <<abslSeed, aborted, adlReturns, memFault, iters, queryLog>>

\* One list in a runtime whose default-memory queries fail or succeed.
InitMem ==
  /\ \E l \in Constructible(MaxEqLen, MaxEqLen) : heap = <<l>>
  /\ abslSeed = 0
  /\ aborted = FALSE
  /\ ret = NoCall
  /\ adlReturns = {}
  /\ memFault \in 0..MaxFault
  /\ iters = <<>>
  /\ queryLog = <<>>
  /\ kindLog = <<>>
  /\ ConcInit

NextMem ==
  \/ \E self \in Objs : MemoryKinds(self) /\ UNCHANGED conc
  \/ \E self \in Objs : DefaultMemoryKind(self) /\ UNCHANGED conc
  \/ \E self \in Objs : DeviceKind(self) /\ UNCHANGED conc
  \/ FaultChanges /\ UNCHANGED conc

SpecMem == InitMem /\ [][NextMem]_vars

\* The last call was memory_kinds or default_memory_kind.
MemoryCalled == ret.op \in {"MemoryKinds", "DefaultMemoryKind"}

\* The entries of queryLog about list o.
QueriesOf(o) == SelectSeq(queryLog, LAMBDA e : e[1] = o)

\* C12: when the first memory-kind resolution of a list failed (the query of
\* device 0 failed with error k), every memory_kinds / default_memory_kind call
\* reports that same failure, whatever the device would answer now, and the
\* device was queried once only.
C12_FailureCached ==
  (/\ MemoryCalled
   /\ QueriesOf(ret.self) # <<>>
   /\ QueriesOf(ret.self)[1][2] # 0)
    => /\ ret.status = "raise"
       /\ ret.val \in {<<<<"ValueError", DeviceStatus(QueriesOf(ret.self)[1][2])>>>>,
                       <<<<"ValueError", PythonErrorStatus(QueriesOf(ret.self)[1][2])>>>>}
       /\ ~heap[ret.self].memory_kind_info_[1].ok
       /\ ret.val[1][2] = heap[ret.self].memory_kind_info_[1].status
       /\ Len(QueriesOf(ret.self)) = 1

\* C12 witness: a call on a list whose info was stored already re-reported
\* error 2 while the runtime would have succeeded.
C12_Witness ==
  /\ MemoryCalled
  /\ ret.again
  /\ ret.other = 0
  /\ ret.status = "raise"
  /\ QueriesOf(ret.self) = <<<<ret.self, 2>>>>

\* C13: on an empty list of either representation default_memory_kind returns
\* None and memory_kinds returns the empty tuple, without an error and without
\* a query of any device.
C13_EmptyListMemoryKinds ==
  (MemoryCalled /\ ListLen(heap[ret.self]) = 0)
    => /\ ret.status = "ok"
       /\ ret.op = "DefaultMemoryKind" => ret.val = <<"None">>
       /\ ret.op = "MemoryKinds" => ret.val = <<<<>>>>
       /\ QueriesOf(ret.self) = <<>>

\* C13 witness: default_memory_kind returned on an empty native list while the
\* runtime was failing default-memory queries.
C13_Witness ==
  /\ ret.op = "DefaultMemoryKind"
  /\ ret.status = "ok"
  /\ heap[ret.self].index = 0
  /\ ListLen(heap[ret.self]) = 0
  /\ ret.other # 0

\* C14: device_kind returns exactly on a native, non-empty list, and then
\* returns the kind of device 0; on a tuple list and on an empty list it
\* raises and returns no value.
C14_DeviceKind ==
  ret.op = "DeviceKind" =>
    IF heap[ret.self].index = 0 /\ ListLen(heap[ret.self]) > 0
      THEN /\ ret.status = "ok"
           /\ ret.val = <<DeviceKindOf(heap[ret.self].device_list_[1])>>
      ELSE /\ ret.status = "raise"
           /\ ret.val[1][1] = "ValueError"

\* C14 witness: device_kind returned "gpu" on the native list (a1, a0).
C14_Witness ==
  /\ ret.op = "DeviceKind"
  /\ heap[ret.self].index = 0
  /\ heap[ret.self].device_list_ = <<"a1", "a0">>
  /\ ret.status = "ok"
  /\ ret.val = <<"gpu">>

C16_GetItem ==
  ret.op = "GetItem" =>
    LET n == ListLen(heap[ret.self])
        i == ret.other
        t == AsTuple(heap[ret.self])
    IN /\ (0 <= i /\ i < n) => (ret.status = "ok" /\ ret.val = <<t[i + 1]>>)
       /\ (0 - n <= i /\ i < 0) => (ret.status = "ok" /\ ret.val = <<t[n + i + 1]>>)
       /\ (i >= n \/ i < 0 - n) => (ret.status = "raise" /\ ret.val = <<"IndexError">>)

\* C16 witness: get(-2) on a native list of 3 devices returned its device 1.
C16_Witness ==
  /\ ret.op = "GetItem"
  /\ heap[ret.self].index = 0
  /\ ListLen(heap[ret.self]) = 3
  /\ ret.other = 0 - 2
  /\ ret.status = "ok"
  /\ ret.val = <<AsTuple(heap[ret.self])[2]>>

\* ------------------------------------------------------- construction
\* DeviceList(t), nb::init<nb::tuple>: ret names the new object as self and
\* holds the tuple given.
Construct(t) ==
  /\ ~aborted
  /\ Len(heap) < MaxObjs
  /\ heap' = Append(heap, PyDeviceListTuple(t))
  /\ ret' = Returned("Construct", Len(heap) + 1, 0, t)
  /\ UNCHANGED <<abslSeed, aborted, adlReturns>>

\* __len__
LenCall(self) ==
  /\ ~aborted
  /\ ret' = Returned("Len", self, 0, ListLen(heap[self]))
  /\ UNCHANGED <<heap, abslSeed, aborted, adlReturns>>

InitCtor ==
  /\ heap = <<>>
  /\ abslSeed = 0
  /\ aborted = FALSE
  /\ ret = NoCall
  /\ adlReturns = {}
  /\ memFault = 0
  /\ iters = <<>>
  /\ queryLog = <<>>
  /\ kindLog = <<>>
  /\ ConcInit

\* A caller constructs one list from a tuple of Python objects.
NextCtor ==
  \/ \E t \in TuplesUpTo(PyObjects, MaxLen) : heap = <<>> /\ Construct(t) /\ UNCHANGED aux
  \/ \E self \in Objs : LenCall(self) /\ UNCHANGED aux

SpecCtor == InitCtor /\ [][NextCtor]_vars

\* The tuple holds an object that is no PyDevice, or PyDevices of two clients.
Mixed(t) ==
  \/ \E i \in 1..Len(t) : ~IsPyDevice(t[i])
  \/ \E i, j \in 1..Len(t) :
       /\ IsPyDevice(t[i]) /\ IsPyDevice(t[j])
       /\ PyDeviceClient(t[i]) # PyDeviceClient(t[j])

\* C17: constructing from a sequence that holds a non-native element, or
\* native devices of two clients, raises nothing and gives a list in the tuple
\* representation that holds exactly the given sequence.
C17_FallbackKeepsSequence ==
  (ret.op = "Construct" /\ Mixed(ret.val[1]))
    => /\ ret.status = "ok"
       /\ heap[ret.self].index = 1
       /\ heap[ret.self].device_list_ = ret.val[1]

\* C17 witness: the list built from devices of two clients with a duck-typed
\* device after them.
C17_Witness ==
  /\ ret.op = "Construct"
  /\ ret.val = <<<<GetPyDevice("cA", "a0"), GetPyDevice("cB", "b1"), <<"Duck", "k0">>>>>>
  /\ heap[ret.self].index = 1

\* C18: constructing from a sequence whose elements are all native devices of
\* one client (so there is at least one) gives a native list owned by that
\* client, with the devices in the order given.
C18_UpgradeToNative ==
  (/\ ret.op = "Construct"
   /\ ret.val[1] # <<>>
   /\ ~Mixed(ret.val[1]))
    => /\ ret.status = "ok"
       /\ heap[ret.self].index = 0
       /\ heap[ret.self].py_client_ = PyDeviceClient(ret.val[1][1])
       /\ heap[ret.self].device_list_ =
            [i \in 1..Len(ret.val[1]) |-> PyDeviceDevice(ret.val[1][i])]

\* C18 witness: the native list built from (a1, a0, a1).
C18_Witness ==
  /\ ret.op = "Construct"
  /\ ret.val = <<<<GetPyDevice("cA", "a1"), GetPyDevice("cA", "a0"), GetPyDevice("cA", "a1")>>>>
  /\ heap[ret.self].index = 0
  /\ heap[ret.self].device_list_ = <<"a1", "a0", "a1">>

\* C19: an iterator over a list of n devices returns n handles and then
\* stops; its i-th handle is the i-th element of the serialized sequence and
\* what get(i) returns; a second iterator over the list returns the same
\* sequence.
C19_IterationAgrees ==
  \A k \in 1..Len(iters) :
    LET l == heap[iters[k].list]
        y == iters[k].yielded
    IN /\ Len(y) <= ListLen(l)
       /\ iters[k].done => Len(y) = ListLen(l)
       /\ (ret.op = "IterNext" /\ ret.other = k /\ ret.status = "raise") => iters[k].done
       /\ \A i \in 1..Len(y) :
            /\ y[i] = Dump(l)[i]
            /\ GetItemResult(l, i - 1) = Value(y[i])
       /\ \A j \in 1..Len(iters) :
            (iters[j].list = iters[k].list /\ iters[j].done /\ iters[k].done)
              => iters[j].yielded = y

\* C19 witness: two iterators over one native list of 3 devices, not all the
\* same, have both stopped after 3 handles.
C19_Witness ==
  /\ Len(iters) = 2
  /\ iters[1].done /\ iters[2].done
  /\ heap[iters[1].list].index = 0
  /\ Len(iters[1].yielded) = 3
  /\ iters[1].yielded[1] # iters[1].yielded[3]
  /\ iters[2].yielded = iters[1].yielded

\* ------------------------------------------------- sharding resolution
\* to_ifrt_sharding.h declares the resolution functions; what they do is
\* taken from the specification's section 4.2.
\* The closed set of sharding shapes, and all the shapes a caller can pass.
RecognizedShapes == {"single_device", "mesh", "explicit_mapping"}
ShardingShapes == RecognizedShapes \cup {"unrecognized"}

\* The device sequences a sharding declares: devices of one client.
ShardingDevices ==
  UNION {{s \in TuplesUpTo({d \in IfrtDevices : DeviceClient(d) = c}, MaxEqLen) : s # <<>>} :
         c \in Clients}

\* The sharding values: a shape, the declared devices and a memory kind; a
\* single-device sharding declares one device.
Shardings ==
  {sh \in [shape : ShardingShapes, devices : ShardingDevices,
           memory_kind : {"None", "device"}] :
     sh.shape = "single_device" => Len(sh.devices) = 1}

\* absl::StatusOr<T> holding a failure.
Failed(status) == [status |-> "error", val |-> <<status>>]

\* A check of the shape that lets every sharding through.
AnyShape(sharding) == TRUE

\* The shape of the sharding is one of the closed set.
Recognized(sharding) == sharding.shape \in RecognizedShapes

\* GetIfrtDeviceList(sharding_py)
GetIfrtDeviceList(sharding) ==
  IF Recognized(sharding) THEN Value(sharding.devices)
  ELSE Failed("unsupported sharding")

\* GetIfrtHloSharding(sharding, shape): the partitioning descriptor over the
\* device list, with the memory kind.
GetIfrtHloSharding(sharding) ==
  IF Recognized(sharding)
    THEN Value([descriptor |-> "HloSharding", devices |-> sharding.devices,
                memory_kind |-> sharding.memory_kind, shards |-> Len(sharding.devices)])
    ELSE Failed("unsupported sharding")

\* GetIfrtConcreteSharding(sharding, shape, shard_shapes): the explicit
\* assignment; the number of shard shapes has to be the number of devices.
GetIfrtConcreteSharding(sharding, num_shard_shapes) ==
  IF ~Recognized(sharding) THEN Failed("unsupported sharding")
  ELSE IF num_shard_shapes # Len(sharding.devices) THEN Failed("shard count mismatch")
  ELSE Value([descriptor |-> "ConcreteSharding", devices |-> sharding.devices,
              memory_kind |-> sharding.memory_kind, shards |-> num_shard_shapes])

\* A resolution call: ret.other is the sharding passed.
Resolved(op, sharding, r) ==
  /\ ~aborted
  /\ ret' = [op |-> op, self |-> 0, other |-> sharding, status |-> r.status,
             val |-> r.val, again |-> FALSE]
  /\ UNCHANGED <<heap, abslSeed, aborted, adlReturns>>

NextSharding ==
  \/ \E sh \in Shardings :
       Resolved("GetIfrtDeviceList", sh, GetIfrtDeviceList(sh)) /\ UNCHANGED aux
  \/ \E sh \in Shardings :
       Resolved("GetIfrtHloSharding", sh, GetIfrtHloSharding(sh)) /\ UNCHANGED aux
  \/ \E sh \in Shardings, n \in 1..MaxEqLen :
       Resolved("GetIfrtConcreteSharding", sh, GetIfrtConcreteSharding(sh, n))
       /\ UNCHANGED aux

\* Shardings resolved one after another; no device list exists at the start.
SpecSharding == InitCtor /\ [][NextSharding]_vars

\* The last call resolved a sharding.
ResolveCalled ==
  ret.op \in {"GetIfrtDeviceList", "GetIfrtHloSharding", "GetIfrtConcreteSharding"}

\* C20: resolving a sharding whose shape is not in the closed set returns the
\* unsupported-sharding failure, and no device list or descriptor.
C20_UnsupportedSharding ==
  (ResolveCalled /\ ret.other.shape \notin RecognizedShapes)
    => /\ ret.status = "error"
       /\ ret.val = <<"unsupported sharding">>

\* C20 witness: GetIfrtDeviceList failed on an unrecognized sharding over two
\* devices.
C20_Witness ==
  /\ ret.op = "GetIfrtDeviceList"
  /\ ret.other.shape = "unrecognized"
  /\ Len(ret.other.devices) = 2
  /\ ret.status = "error"

\* ---------------------------------------------------------------- threads
\* The operations that memoize, apart from __eq__.
MemoOps ==
  {"Hash", "ProcessIndices", "IsFullyAddressable", "AddressableDeviceList",
   "MemoryKinds", "DefaultMemoryKind", "DeviceKind"}

\* The memoized fields of a list.
MemoFields ==
  {"hash_", "is_fully_addressable_", "process_indices_", "addressable_device_list_",
   "device_kind_", "memory_kind_info_"}

\* __hash__ bound without nb::lock_self().
LocksSelfButHash(op) == op \in MemoOps \ {"Hash"}

\* The operation runs under the lock of self: nb::lock_self() in its binding,
\* or nb::ft_object_guard lock(self) as the first statement of the function.
LocksSelf(op) == op \in MemoOps

\* The list with the fields of P unset.
Reset(l, P) ==
  [l EXCEPT
     !.hash_ = IF "hash_" \in P THEN Nullopt ELSE @,
     !.is_fully_addressable_ = IF "is_fully_addressable_" \in P THEN Nullopt ELSE @,
     !.process_indices_ = IF "process_indices_" \in P THEN Nullopt ELSE @,
     !.addressable_device_list_ = IF "addressable_device_list_" \in P THEN Nullopt ELSE @,
     !.device_kind_ = IF "device_kind_" \in P THEN Nullopt ELSE @,
     !.memory_kind_info_ = IF "memory_kind_info_" \in P THEN Nullopt ELSE @]

\* The list self after the body of op ran on it; new is the object id of the
\* sublist that AddressableDeviceList constructs.
After(op, l, self, new) ==
  CASE op = "Hash" -> HashMemo(l, abslSeed)
    [] op = "ProcessIndices" -> ProcessIndicesMemo(l)
    [] op = "IsFullyAddressable" -> IsFullyAddressableRun(l).l
    [] op = "AddressableDeviceList" ->
         LET r == IsFullyAddressableRun(l)
         IN IF r.status = "abort" THEN r.l
            ELSE IF TakesFastPath(r.l) THEN ReturnSelf(r.l, self)
            ELSE IF r.l.addressable_device_list_ # Nullopt THEN r.l
            ELSE [r.l EXCEPT !.addressable_device_list_ = <<new>>]
    [] op \in {"MemoryKinds", "DefaultMemoryKind"} -> MemoryKindInfoMemo(l, memFault)
    [] op = "DeviceKind" -> DeviceKindMemo(l)

\* A CHECK fails in the body of op on l.
BodyAborts(op, l) ==
  /\ op \in {"IsFullyAddressable", "AddressableDeviceList"}
  /\ IsFullyAddressableRun(l).status = "abort"

\* The fields the body of op finds unset on l and assigns.
Pending(op, l) ==
  {f \in MemoFields : l[f] = Nullopt /\ After(op, l, 0, 0)[f] # Nullopt}

\* The lists the threads share: A and B, two objects built from the same
\* devices.
Roots == {1, 2}

\* The list the calls are made on: A, the first object. Among threads Equal
\* is called both ways, and A and B are alike, so a call on B beside
\* Equal(A, B) is a call on A beside Equal(B, A).
Called == {1}

\* Thread t calls op on self, and waits for the lock of self.
ThreadCall(t, op, self) ==
  /\ ~aborted
  /\ pc[t] = Idle
  /\ pc' = [pc EXCEPT ![t] = [Idle EXCEPT !.op = op, !.self = self, !.at = "wait"]]
  /\ UNCHANGED <<heap, abslSeed, aborted, ret, adlReturns, held>>

\* Thread t gets the lock of self, if op takes it, and enters the body: the
\* body tests which fields are unset.
ThreadAcquire(t) ==
  /\ ~aborted
  /\ pc[t].at = "wait"
  /\ pc[t].op \in MemoOps
  /\ LocksSelf(pc[t].op) => \A u \in Threads : <<pc[t].self, u>> \notin held
  /\ held' = IF LocksSelf(pc[t].op) THEN held \cup {<<pc[t].self, t>>} ELSE held
  /\ pc' = [pc EXCEPT ![t].at = "body",
                      ![t].pending = Pending(pc[t].op, heap[pc[t].self])]
  /\ UNCHANGED <<heap, abslSeed, aborted, ret, adlReturns>>

\* Thread t runs the rest of the body: it assigns the fields it found unset,
\* returns, and the lock of self is released.
ThreadBody(t) ==
  LET c == pc[t]
      new == Len(heap) + 1
      l0 == Reset(heap[c.self], c.pending)
      l1 == After(c.op, l0, c.self, new)
  IN /\ ~aborted
     /\ c.at = "body"
     /\ heap' = IF "addressable_device_list_" \in c.pending
                  THEN Append([heap EXCEPT ![c.self] = l1], NewAddressableList(l1))
                  ELSE [heap EXCEPT ![c.self] = l1]
     /\ aborted' = BodyAborts(c.op, l0)
     /\ held' = held \ {<<c.self, t>>}
     /\ pc' = [pc EXCEPT ![t] = Idle]
     /\ UNCHANGED <<abslSeed, ret, adlReturns>>

\* An Equal whose first guard lives to the end of the function.
KeepsSelfLocked(self, t) == {}

\* The locks that the end of Equal's first block releases: the guard on self.
FirstBlockReleases(self, t) == {<<self, t>>}

\* Thread t calls Equal(self, other): it returns at once when other is no
\* PyDeviceList or is self, and else goes for the lock of self.
ThreadEqualCall(t, self, other) ==
  /\ ~aborted
  /\ pc[t] = Idle
  /\ pc' = IF other = NotAList \/ self = other
             THEN pc
             ELSE [pc EXCEPT ![t] = [Idle EXCEPT !.op = "Equal", !.self = self,
                                                 !.other = other, !.at = "wait"]]
  /\ UNCHANGED <<heap, abslSeed, aborted, ret, adlReturns, held>>

\* { nb::ft_object_guard lock(self); ...: t gets the lock of self and enters
\* self->Hash().
ThreadLockSelf(t) ==
  /\ ~aborted
  /\ pc[t].op = "Equal"
  /\ pc[t].at = "wait"
  /\ \A u \in Threads : <<pc[t].self, u>> \notin held
  /\ held' = held \cup {<<pc[t].self, t>>}
  /\ pc' = [pc EXCEPT ![t].at = "hash_self",
                      ![t].pending = Pending("Hash", heap[pc[t].self])]
  /\ UNCHANGED <<heap, abslSeed, aborted, ret, adlReturns>>

\* ... h1 = self->Hash(); }: the hash of self is stored if it was unset, read
\* into h1, and the block ends.
ThreadHashSelf(t) ==
  LET c == pc[t]
      l1 == HashMemo(Reset(heap[c.self], c.pending), abslSeed)
  IN /\ ~aborted
     /\ c.at = "hash_self"
     /\ heap' = [heap EXCEPT ![c.self] = l1]
     /\ held' = held \ FirstBlockReleases(c.self, t)
     /\ pc' = [pc EXCEPT ![t].at = "wait_other", ![t].pending = {}, ![t].h1 = l1.hash_[1]]
     /\ UNCHANGED <<abslSeed, aborted, ret, adlReturns>>

\* { nb::ft_object_guard lock(other); ...: t gets the lock of other and enters
\* o->Hash().
ThreadLockOther(t) ==
  /\ ~aborted
  /\ pc[t].at = "wait_other"
  /\ \A u \in Threads : <<pc[t].other, u>> \notin held
  /\ held' = held \cup {<<pc[t].other, t>>}
  /\ pc' = [pc EXCEPT ![t].at = "hash_other",
                      ![t].pending = Pending("Hash", heap[pc[t].other])]
  /\ UNCHANGED <<heap, abslSeed, aborted, ret, adlReturns>>

\* ... h2 = o->Hash(); }
ThreadHashOther(t) ==
  LET c == pc[t]
      l1 == HashMemo(Reset(heap[c.other], c.pending), abslSeed)
  IN /\ ~aborted
     /\ c.at = "hash_other"
     /\ heap' = [heap EXCEPT ![c.other] = l1]
     /\ held' = held \ {<<c.other, t>>}
     /\ pc' = [pc EXCEPT ![t].at = "compare", ![t].pending = {}, ![t].h2 = l1.hash_[1]]
     /\ UNCHANGED <<abslSeed, aborted, ret, adlReturns>>

\* The rest of Equal: h1 != h2, or the comparison of the device sequences.
ThreadCompare(t) ==
  LET c == pc[t]
  IN /\ ~aborted
     /\ c.at = "compare"
     /\ pc' = [pc EXCEPT ![t] = Idle]
     /\ UNCHANGED <<heap, abslSeed, aborted, ret, adlReturns, held>>

\* Two lists A and B of the same devices, shared by the threads.
InitThreads ==
  /\ \E a \in Constructible(MaxThreadLen, MaxThreadLen) : heap = <<a, a>>
  /\ abslSeed = 0
  /\ aborted = FALSE
  /\ ret = NoCall
  /\ adlReturns = {}
  /\ memFault = 0
  /\ iters = <<>>
  /\ queryLog = <<>>
  /\ kindLog = <<>>
  /\ ConcInit

NextThreads ==
  \/ \E t \in Threads, op \in MemoOps, self \in Called :
       ThreadCall(t, op, self) /\ UNCHANGED <<memFault, iters, queryLog, kindLog, released>>
  \/ \E t \in Threads :
       ThreadAcquire(t) /\ UNCHANGED <<memFault, iters, queryLog, kindLog, released>>
  \/ \E t \in Threads :
       ThreadBody(t) /\ UNCHANGED <<memFault, iters, queryLog, kindLog, released>>
  \/ \E t \in Threads, self \in Roots, other \in Roots \cup {NotAList} :
       ThreadEqualCall(t, self, other)
       /\ UNCHANGED <<memFault, iters, queryLog, kindLog, released>>
  \/ \E t \in Threads :
       ThreadLockSelf(t) /\ UNCHANGED <<memFault, iters, queryLog, kindLog, released>>
  \/ \E t \in Threads :
       ThreadHashSelf(t) /\ UNCHANGED <<memFault, iters, queryLog, kindLog, released>>
  \/ \E t \in Threads :
       ThreadLockOther(t) /\ UNCHANGED <<memFault, iters, queryLog, kindLog, released>>
  \/ \E t \in Threads :
       ThreadHashOther(t) /\ UNCHANGED <<memFault, iters, queryLog, kindLog, released>>
  \/ \E t \in Threads :
       ThreadCompare(t) /\ UNCHANGED <<memFault, iters, queryLog, kindLog, released>>

\* Two threads calling the memoizing operations on two shared lists.
SpecThreads == InitThreads /\ [][NextThreads]_vars

\* ---------------------------------------------------------------------------
\* Claims about threads
\* ---------------------------------------------------------------------------

\* The list whose memoized fields thread t is about to assign.
Target(t) == IF pc[t].at = "hash_other" THEN pc[t].other ELSE pc[t].self

\* Thread t is inside a body that assigns memoized fields.
Writing(t) == pc[t].at \in {"body", "hash_self", "hash_other"} /\ pc[t].pending # {}

\* C21: under any interleaving of threads calling the memoizing operations on
\* the same list, a thread that assigns a memoized field holds the lock of that
\* list, the field is still unset when it is assigned (it is computed at most
\* once), no two threads are computing a field of the same list, and the hash a
\* thread has read is the cached one.
C21_LockedMemoization ==
  \A t \in Threads :
    /\ Writing(t) =>
         /\ <<Target(t), t>> \in held
         /\ \A f \in pc[t].pending : heap[Target(t)][f] = Nullopt
         /\ \A u \in Threads \ {t} : ~(Writing(u) /\ Target(u) = Target(t))
    /\ pc[t].at \in {"wait_other", "hash_other", "compare"} =>
         heap[pc[t].self].hash_ = <<pc[t].h1>>
    /\ pc[t].at = "compare" => heap[pc[t].other].hash_ = <<pc[t].h2>>

\* One thread is computing a field of A while the other waits for the lock of
\* A to run the same operation.
C21_Witness ==
  \E t, u \in Threads :
    /\ t # u
    /\ Writing(t) /\ pc[t].at = "body"
    /\ pc[u].at = "wait" /\ pc[u].op = pc[t].op /\ pc[u].self = pc[t].self

\* The lists whose lock thread t holds.
HeldBy(t) == {o \in 1..Len(heap) : <<o, t>> \in held}

\* C22: during Equal(A, B) no thread holds the locks of A and of B together:
\* the lock of A is released after reading A's hash and before the lock of B
\* is taken, and no lock is held while the device sequences are compared.
C22_NeverBothLocks ==
  \A t \in Threads :
    pc[t].op = "Equal" =>
      /\ ~({pc[t].self, pc[t].other} \subseteq HeldBy(t))
      /\ pc[t].at = "hash_self" => HeldBy(t) = {pc[t].self}
      /\ pc[t].at = "hash_other" => HeldBy(t) = {pc[t].other}
      /\ pc[t].at \in {"wait", "wait_other", "compare"} => HeldBy(t) = {}

\* One thread compares the sequences of A and B while the other thread, in a
\* memoizing operation, holds the lock of A.
C22_Witness ==
  \E t, u \in Threads :
    /\ pc[t].op = "Equal" /\ pc[t].at = "compare"
    /\ pc[u].at = "body" /\ HeldBy(u) = {pc[t].self}

\* ---------------------------------------------------------------------------
\* Claims about the memoized fields
\* ---------------------------------------------------------------------------

\* Every memoizing operation on the list A, while the runtime's answer to a
\* default-memory query changes.
NextMemo ==
  \/ \E self \in Called : Hash(self) /\ UNCHANGED aux
  \/ \E self \in Called, other \in Objs \cup {NotAList} :
        Equal(self, other) /\ UNCHANGED aux
  \/ \E self \in Called : ProcessIndices(self) /\ UNCHANGED aux
  \/ \E self \in Called : IsFullyAddressable(self) /\ UNCHANGED aux
  \/ \E self \in Called : AddressableDeviceList(self) /\ UNCHANGED aux
  \/ \E self \in Called : MemoryKinds(self) /\ UNCHANGED conc
  \/ \E self \in Called : DefaultMemoryKind(self) /\ UNCHANGED conc
  \/ \E self \in Called : DeviceKind(self) /\ UNCHANGED conc
  \/ FaultChanges /\ UNCHANGED conc

SpecMemo == InitMem /\ [][NextMemo]_vars

\* C23: write-once memoization: once hash_, is_fully_addressable_,
\* process_indices_, addressable_device_list_, device_kind_ or
\* memory_kind_info_ (a cached failure included) of a list is populated, no
\* later operation changes its value.
C23_WriteOnce ==
  [][\A o \in Objs : \A f \in MemoFields :
       heap[o][f] # Nullopt => heap'[o][f] = heap[o][f]]_vars

\* Every memoized field of a list is populated, its memory-kind info with a
\* failure, and a memory-kind property was read again after the runtime
\* stopped failing.
C23_Witness ==
  /\ \A f \in MemoFields : heap[1][f] # Nullopt
  /\ ~heap[1].memory_kind_info_[1].ok
  /\ ret.op \in {"MemoryKinds", "DefaultMemoryKind"}
  /\ ret.self = 1
  /\ ret.again
  /\ memFault = 0

\* ---------------------------------------------------------------------------
\* process_indices on devices without a process_index
\* ---------------------------------------------------------------------------

\* A Python object that is no PyDevice and has no attribute process_index.
OpaqueObjects == {<<"Opaque", "x0">>}

\* nb::cast<int>(device.attr("process_index")) returns, and does not throw.
HasProcessIndex(obj) == obj[1] # "Opaque"

\* The first position of the tuple t whose element has no process_index;
\* Len(t) + 1 when every element has one.
FirstWithout(t) ==
  IF \A i \in 1..Len(t) : HasProcessIndex(t[i]) THEN Len(t) + 1
  ELSE CHOOSE i \in 1..Len(t) :
         /\ ~HasProcessIndex(t[i])
         /\ \A j \in 1..(i - 1) : HasProcessIndex(t[j])

\* PyDeviceList::ProcessIndices: process_indices_ is assigned the empty set
\* before the loop, and the loop inserts into it element by element; when an
\* element throws, what was inserted so far stays in process_indices_.
ProcessIndicesRun(l) ==
  IF l.process_indices_ # Nullopt THEN [l |-> l, status |-> "ok"]
  ELSE IF l.index = 0 THEN [l |-> ProcessIndicesMemo(l), status |-> "ok"]
  ELSE LET t == l.device_list_
           k == FirstWithout(t)
           inserted == {AttrProcessIndex(t[i]) : i \in 1..(k - 1)}
       IN [l |-> [l EXCEPT !.process_indices_ = <<inserted>>],
           status |-> IF k > Len(t) THEN "ok" ELSE "raise"]

\* process_indices on a list that may hold objects without process_index.
ProcessIndicesCall(self) ==
  LET r == ProcessIndicesRun(heap[self])
  IN /\ ~aborted
     /\ heap' = [heap EXCEPT ![self] = r.l]
     /\ ret' = IF r.status = "ok"
                 THEN Returned("ProcessIndices", self, 0, r.l.process_indices_[1])
                 ELSE Raised("ProcessIndices", self, 0, "AttributeError")
     /\ UNCHANGED <<abslSeed, aborted, adlReturns>>

\* is_fully_addressable on such a list: the exception of ProcessIndices
\* passes through; after it, the function goes on as IsFullyAddressableRun.
IsFullyAddressableCall(self) ==
  LET p == IF heap[self].is_fully_addressable_ # Nullopt
             THEN [l |-> heap[self], status |-> "ok"]
             ELSE ProcessIndicesRun(heap[self])
      r == IsFullyAddressableRun(p.l)
  IN /\ ~aborted
     /\ IF p.status = "raise"
          THEN /\ heap' = [heap EXCEPT ![self] = p.l]
               /\ ret' = Raised("IsFullyAddressable", self, 0, "AttributeError")
               /\ UNCHANGED aborted
          ELSE /\ heap' = [heap EXCEPT ![self] = r.l]
               /\ aborted' = (r.status = "abort")
               /\ ret' = IF r.status = "abort"
                           THEN Aborted("IsFullyAddressable", self)
                           ELSE Returned("IsFullyAddressable", self, 0,
                                         r.l.is_fully_addressable_[1])
     /\ UNCHANGED <<abslSeed, adlReturns>>

\* One list built from a tuple of devices and of objects without
\* process_index.
InitPartial ==
  /\ \E t \in TuplesUpTo(PyObjects \cup OpaqueObjects, MaxEqLen) :
       heap = <<PyDeviceListTuple(t)>>
  /\ abslSeed = 0
  /\ aborted = FALSE
  /\ ret = NoCall
  /\ adlReturns = {}
  /\ memFault = 0
  /\ iters = <<>>
  /\ queryLog = <<>>
  /\ kindLog = <<>>
  /\ ConcInit

NextPartial ==
  \/ \E self \in Objs : ProcessIndicesCall(self) /\ UNCHANGED aux
  \/ \E self \in Objs : IsFullyAddressableCall(self) /\ UNCHANGED aux

SpecPartial == InitPartial /\ [][NextPartial]_vars

\* Every device of the list l has a process_index.
AllHaveProcessIndex(l) ==
  l.index = 1 => \A i \in 1..ListLen(l) : HasProcessIndex(l.device_list_[i])

\* C24: a set that process_indices returns is the set of the process indices
\* of all devices of the list; after a computation that failed part-way no
\* partial set is cached, so process_indices and is_fully_addressable return
\* nothing that rests on a prefix of the devices.
C24_NoPartialSet ==
  /\ (ret.op = "ProcessIndices" /\ ret.status = "ok") =>
       /\ AllHaveProcessIndex(heap[ret.self])
       /\ ret.val[1] = ComputeProcessIndices(heap[ret.self])
  /\ (ret.op = "IsFullyAddressable" /\ ret.status \in {"ok", "abort"}) =>
       AllHaveProcessIndex(heap[ret.self])
  /\ \A o \in Objs :
       (heap[o].process_indices_ # Nullopt /\ AllHaveProcessIndex(heap[o])) =>
         heap[o].process_indices_[1] = ComputeProcessIndices(heap[o])

\* ---------------------------------------------------------------------------
\* Threads under fair scheduling
\* ---------------------------------------------------------------------------

\* A step of thread t that needs no lock: the rest of a body, of a guarded
\* block of Equal, or of Equal.
Run(t) ==
  /\ ThreadBody(t) \/ ThreadHashSelf(t) \/ ThreadHashOther(t) \/ ThreadCompare(t)
  /\ UNCHANGED <<memFault, iters, queryLog, kindLog, released>>

\* Thread t gets the lock it waits for.
Lock(t) ==
  /\ ThreadAcquire(t) \/ ThreadLockSelf(t) \/ ThreadLockOther(t)
  /\ UNCHANGED <<memFault, iters, queryLog, kindLog, released>>

\* A thread that can run does run, and a thread waiting for a lock that is
\* free again and again gets it; no thread has to start a call.
Fairness == \A t \in Threads : WF_vars(Run(t)) /\ SF_vars(Lock(t))

SpecThreadsFair == InitThreads /\ [][NextThreads]_vars /\ Fairness

\* C25: when one thread evaluates Equal(A, B) while other threads evaluate
\* Equal(B, A) or another memoizing operation on A, under fair scheduling every
\* call eventually returns: no thread waits for an object lock forever.
C25_EveryCallReturns ==
  \A t \in Threads : (pc[t].at # "idle") ~> (pc[t].at = "idle")

\* ---------------------------------------------------------------------------
\* Destruction
\* ---------------------------------------------------------------------------

\* A destructor body that hands a copy of the tuple to AddGarbage: the member
\* still holds its reference.
DestructorBodyCopy(l) ==
  IF l.index = 1 THEN [garbage |-> TRUE, holds |-> TRUE]
  ELSE [garbage |-> FALSE, holds |-> TRUE]

\* PyDeviceList::~PyDeviceList, the body: a tuple is moved out of device_list_
\* into AddGarbage, which leaves the member holding nothing; a native list is
\* left in the member.
DestructorBody(l) ==
  IF l.index = 1 THEN [garbage |-> TRUE, holds |-> FALSE]
  ELSE [garbage |-> FALSE, holds |-> TRUE]

\* The destruction of the member device_list_ after the body: it releases
\* what the member still holds.
MemberDestructor(b) == IF b.holds THEN <<"inline">> ELSE <<>>

\* What the destruction of l does with its device sequence, in order.
DestructorEvents(l) ==
  LET b == DestructorBody(l)
  IN <<"destroy">> \o (IF b.garbage THEN <<"garbage">> ELSE <<>>) \o MemberDestructor(b)

\* The object self has been destroyed.
Destroyed(self) == \E i \in 1..Len(released) : released[i] = <<self, "destroy">>

\* Python holds a reference to the root, and a list holds one to the sublist
\* it caches: self is destroyed after the lists that cache it.
Destroy(self) ==
  /\ ~aborted
  /\ ~Destroyed(self)
  /\ \A o \in Objs : heap[o].addressable_device_list_ = <<self>> => Destroyed(o)
  /\ released' = released \o [i \in 1..Len(DestructorEvents(heap[self])) |->
                                <<self, DestructorEvents(heap[self])[i]>>]
  /\ UNCHANGED <<heap, abslSeed, aborted, ret, adlReturns, memFault, iters, queryLog,
                 kindLog, pc, held>>

\* One list, the sublists derived from it, and their destruction.
NextDestroy ==
  \/ \E self \in Objs : ~Destroyed(self) /\ Hash(self) /\ UNCHANGED aux
  \/ \E self \in Objs : ~Destroyed(self) /\ AddressableDeviceList(self) /\ UNCHANGED aux
  \/ \E self \in Objs : Destroy(self)

SpecDestroy == InitMem /\ [][NextDestroy]_vars

\* How often the destruction of o did `how` with its device sequence.
Times(o, how) == Cardinality({i \in 1..Len(released) : released[i] = <<o, how>>})

\* C26: a destroyed list has released its device sequence exactly once: a
\* native list releases its DeviceListRef once, inline, and a tuple is handed
\* to the garbage sink once and is not released inline as well.
C26_ReleasedOnce ==
  \A o \in Objs :
    Destroyed(o) =>
      /\ Times(o, "destroy") = 1
      /\ Times(o, "inline") + Times(o, "garbage") = 1
      /\ heap[o].index = 0 => Times(o, "inline") = 1
      /\ heap[o].index = 1 => Times(o, "garbage") = 1

\* A list in the tuple representation and the sublist it cached were both
\* destroyed.
C26_Witness ==
  \E o, s \in Objs :
    /\ heap[o].index = 1
    /\ heap[o].addressable_device_list_ = <<s>>
    /\ Destroyed(o) /\ Destroyed(s)

\* ---------------------------------------------------------------------------
\* Slices, and all queries together
\* ---------------------------------------------------------------------------

\* The slices passed to __getitem__: slice(start, stop, step) of integers,
\* forwards, backwards and by two, and one slice with step 0 (which fails
\* whatever its ends are).
Slices ==
  {<<start, stop, step>> : start \in (0 - MaxSlice)..MaxSlice,
                           stop \in (0 - MaxSlice)..MaxSlice,
                           step \in {0 - 1, 1, 2}}
  \cup {<<0, 0, 0>>}

\* PySlice_AdjustIndices on one end i of a slice over n elements.
AdjustIndex(i, n, step) ==
  IF i < 0
    THEN (IF i + n < 0 THEN (IF step < 0 THEN 0 - 1 ELSE 0) ELSE i + n)
  ELSE IF i >= n THEN (IF step < 0 THEN n - 1 ELSE n)
  ELSE i

\* PySlice_GetIndicesEx for a slice with step # 0 over n elements: the first
\* index and the number of elements.
SliceIndices(sl, n) ==
  LET start == AdjustIndex(sl[1], n, sl[3])
      stop == AdjustIndex(sl[2], n, sl[3])
      step == sl[3]
  IN [start |-> start,
      slicelength |->
        IF step < 0
          THEN (IF stop < start THEN ((start - stop - 1) \div (0 - step)) + 1 ELSE 0)
          ELSE (IF start < stop THEN ((stop - start - 1) \div step) + 1 ELSE 0)]

\* PyDeviceList::GetSlice: a slice with step 0 makes PySlice_GetIndicesEx (and
\* tuple.__getitem__) fail with ValueError; else element i of the result is
\* the element at start + i * step.
GetSliceResult(l, sl) ==
  IF sl[3] = 0 THEN Throw("ValueError")
  ELSE LET r == SliceIndices(sl, ListLen(l))
       IN Value([i \in 1..r.slicelength |-> AsTuple(l)[r.start + (i - 1) * sl[3] + 1]])

\* __getitem__(slice); ret keeps the outcome, not the slice.
GetSlice(self, sl) ==
  LET r == GetSliceResult(heap[self], sl)
  IN /\ ~aborted
     /\ ret' = [op |-> "GetSlice", self |-> self, other |-> 0,
                status |-> r.status, val |-> r.val, again |-> FALSE]
     /\ UNCHANGED <<heap, abslSeed, aborted, adlReturns>>

\* One list A shared by all queries.
InitQueries ==
  /\ \E l \in Constructible(MaxThreadLen, MaxThreadLen) : heap = <<l>>
  /\ abslSeed = 0
  /\ aborted = FALSE
  /\ ret = NoCall
  /\ adlReturns = {}
  /\ memFault = 0
  /\ iters = <<>>
  /\ queryLog = <<>>
  /\ kindLog = <<>>
  /\ ConcInit

\* Every query of the bindings on A, in any order; one iterator.
NextQueries ==
  \/ \E self \in Called : LenCall(self) /\ UNCHANGED aux
  \/ \E self \in Called, index \in (0 - MaxSlice)..MaxSlice :
        GetItem(self, index) /\ UNCHANGED aux
  \/ \E self \in Called, sl \in Slices : GetSlice(self, sl) /\ UNCHANGED aux
  \/ \E self \in Called : iters = <<>> /\ Iter(self) /\ UNCHANGED conc
  \/ \E k \in 1..Len(iters) : IterNext(k) /\ UNCHANGED conc
  \/ \E self \in Called : GetState(self) /\ UNCHANGED aux
  \/ \E self \in Called : Hash(self) /\ UNCHANGED aux
  \/ \E self \in Called, other \in Objs \cup {NotAList} :
        Equal(self, other) /\ UNCHANGED aux
  \/ \E self \in Called : ProcessIndices(self) /\ UNCHANGED aux
  \/ \E self \in Called : IsFullyAddressable(self) /\ UNCHANGED aux
  \/ \E self \in Called : AddressableDeviceList(self) /\ UNCHANGED aux
  \/ \E self \in Called : MemoryKinds(self) /\ UNCHANGED conc
  \/ \E self \in Called : DefaultMemoryKind(self) /\ UNCHANGED conc
  \/ \E self \in Called : DeviceKind(self) /\ UNCHANGED conc

SpecQueries == InitQueries /\ [][NextQueries]_vars

\* C27: no query (length, get, get_slice, iteration, hash, equals,
\* is_fully_addressable, process_indices, addressable_device_list, device_kind,
\* memory_kinds, default_memory_kind, serialization) changes the
\* representation variant, the owning client or the ordered device sequence of
\* a list; all a query changes of a list is memoized fields that were unset.
C27_QueriesKeepTheList ==
  [][\/ heap' = heap
     \/ \A o \in Objs :
          /\ o \in 1..Len(heap')
          /\ heap'[o].index = heap[o].index
          /\ heap'[o].py_client_ = heap[o].py_client_
          /\ heap'[o].device_list_ = heap[o].device_list_
          /\ \A f \in MemoFields : heap[o][f] # Nullopt => heap'[o][f] = heap[o][f]]_vars

\* A one-element slice was taken of a native list on which every memoized
\* field is populated and which an iterator has walked to its end.
C27_Witness ==
  /\ heap[1].index = 0
  /\ \A f \in MemoFields : heap[1][f] # Nullopt
  /\ ret.op = "GetSlice" /\ ret.status = "ok" /\ Len(ret.val[1]) = 1
  /\ Len(iters) = 1 /\ iters[1].done /\ Len(iters[1].yielded) = 1
====
